---- MODULE Spec2Model ----
(***************************************************************************)
(* Sequential approval workflow of the expense tracker (app/routes.py,     *)
(* app/models.py).  The database tables are sequences indexed by the       *)
(* autoincrement primary key; every route handler is one action that ends  *)
(* with the commit (or the absence of a commit) of its session, and its    *)
(* status code is an operator of the tables and the request.               *)
(***************************************************************************)
EXTENDS Naturals, Integers, Sequences, FiniteSets, TLC

VARIABLES rules, steps, expenses, approvals, reqs

vars == <<rules, steps, expenses, approvals, reqs>>

\* ---------------------------------------------------------------- bounds
MaxRules == 2
MaxExpenses == 2
MaxApprovals == 3

\* ------------------------------------------------------------- constants
\* approver_id is nullable: the value of the column while nobody has acted
NoUser == 0
\* request.json.get('comments') when the key is absent
NoComment == "None"

\* HTTP status codes returned by the handlers
OK == 200
Created == 201
BadRequest == 400
Forbidden == 403
NotFound == 404
ServerError == 500

\* ----------------------------------------------------------------- users
\* rows of the users table (registration and login are outside the model)
Users ==
  << [role |-> "Admin",   company_id |-> 1],
     [role |-> "Manager", company_id |-> 1],
     [role |-> "Finance", company_id |-> 1],
     [role |-> "Manager", company_id |-> 2] >>

UserIds == DOMAIN Users

\* request bodies of POST /approval-rules: the 'steps' list
Step(n, r) == [step_number |-> n, approver_role |-> r]

\* (none, a repeated number, two steps supplied in reverse order, and three
\* steps numbered from 2 with a gap after 3)
StepLists ==
  { << >>,
    << Step(1, "Manager"), Step(1, "Finance") >>,
    << Step(2, "Finance"), Step(1, "Manager") >>,
    << Step(2, "Manager"), Step(3, "Finance"), Step(5, "Manager") >> }

Comments == {"c"}

\* the principals that submit expenses: one of each company
Submitters == {2, 4}
\* the principals that call POST /approval-rules: an Admin and a non-Admin
RuleAuthors == {1, 2}
\* the principals that decide: both roles of company 1, a Manager of company 2
Deciders == {2, 3, 4}

\* ------------------------------------------------------------- relations
\* ApprovalRule.steps: the steps of a rule (ids), relationship of models.py
RuleSteps(st, rid) == {i \in DOMAIN st : st[i].rule_id = rid}

\* rule.steps[0] with order_by="ApprovalStep.step_number"
FirstStep(st, rid) ==
  CHOOSE i \in RuleSteps(st, rid) :
    \A j \in RuleSteps(st, rid) : st[i].step_number <= st[j].step_number

\* ApprovalRule.query.filter_by(company_id=...): the rules of a company
CompanyRules(rl, cid) == {r \in DOMAIN rl : rl[r].company_id = cid}

\* the successor taken as the next higher step of the rule, whatever its
\* number
NextStepsHigher(st, sid) ==
  {i \in DOMAIN st :
     /\ st[i].rule_id = st[sid].rule_id
     /\ st[i].step_number > st[sid].step_number
     /\ \A j \in DOMAIN st :
          (st[j].rule_id = st[sid].rule_id
             /\ st[j].step_number > st[sid].step_number)
          => st[i].step_number <= st[j].step_number}

\* the successor looked up by step_number alone, in every rule
NextStepsAnyRule(st, sid) ==
  {i \in DOMAIN st : st[i].step_number = st[sid].step_number + 1}

\* ApprovalStep.query.filter_by(rule_id=rule.id,
\*                              step_number=current_step.step_number + 1)
NextSteps(st, sid) ==
  {i \in DOMAIN st : /\ st[i].rule_id = st[sid].rule_id
                     /\ st[i].step_number = st[sid].step_number + 1}

\* the role check made against the first step of the rule instead of the
\* step of the approval
RoleMismatchFirstStep(u, ap, st) ==
  Users[u].role # st[FirstStep(st, st[ap.step_id].rule_id)].approver_role

\* approver.role != approval.step.approver_role
RoleMismatch(u, ap, st) == Users[u].role # st[ap.step_id].approver_role

\* UniqueConstraint('rule_id', 'step_number'): a steps list the insert accepts
UniqueStepNumbers(sl) ==
  \A i, j \in DOMAIN sl : sl[i].step_number = sl[j].step_number => i = j

\* ------------------------------------------------------------------ Init
\* no row of expense_approvals (nothing loaded, nothing to write)
NoRow == [expense_id |-> 0, step_id |-> 0, approver_id |-> NoUser,
          status |-> "none", comments |-> NoComment]

\* a request slot outside any request: the handler, the principal, the
\* approval id of the URL, the row as loaded into the session, the row as the
\* session holds it after the handler's assignments, the step of the
\* approval to insert, the expense status the session loaded, the status code
IdleReq == [pc |-> "idle", kind |-> "none", user |-> NoUser, aid |-> 0,
            loaded |-> NoRow, update |-> NoRow, insert |-> 0,
            seen |-> "none", code |-> 0]

Slots == {1, 2}

Init ==
  /\ rules = << >>
  /\ steps = << >>
  /\ expenses = << >>
  /\ approvals = << >>
  /\ reqs = [s \in Slots |-> IdleReq]

\* ------------------------------------------------ POST /approval-rules
\* the rows added to approval_steps, in the order of data['steps']
NewSteps(rid, sl) ==
  [i \in DOMAIN sl |-> [rule_id |-> rid,
                        step_number |-> sl[i].step_number,
                        approver_role |-> sl[i].approver_role]]

\* the status code of the response
create_approval_rule_code(u, sl) ==
  IF Users[u].role # "Admin" THEN Forbidden
  ELSE IF sl = << >> THEN BadRequest
  \* IntegrityError at commit: the transaction is rolled back
  ELSE IF ~UniqueStepNumbers(sl) THEN ServerError
  ELSE Created

create_approval_rule(u, sl) ==
  /\ UNCHANGED <<expenses, approvals, reqs>>
  /\ IF create_approval_rule_code(u, sl) = Created
       THEN /\ Len(rules) < MaxRules
            /\ rules' = Append(rules, [company_id |-> Users[u].company_id])
            /\ steps' = steps \o NewSteps(Len(rules) + 1, sl)
       ELSE UNCHANGED <<rules, steps>>

\* ------------------------------------------------------ POST /expenses
\* ApprovalRule.query.filter_by(company_id=...).first(): the first row of the
\* company in the table, whose rows are only ever appended (the rule with the
\* lowest id); 0 stands for None
FirstRule(rl, cid) ==
  IF CompanyRules(rl, cid) = {} THEN {0}
  ELSE {CHOOSE r \in CompanyRules(rl, cid) :
          \A q \in CompanyRules(rl, cid) : r <= q}

\* not rule or not rule.steps
NoWorkflow(st, rid) == rid = 0 \/ RuleSteps(st, rid) = {}

\* the status code of the response
submit_expense_code(u, hasFields, rid) ==
  IF ~hasFields THEN BadRequest
  ELSE IF NoWorkflow(steps, rid) THEN ServerError
  ELSE Created

\* the tables after the handler: the session holds the new Expense, then the
\* first ExpenseApproval, and only db.session.commit() writes them
SubmitCommit(ex, ap, u, rid) ==
  [expenses |-> Append(ex, [employee_id |-> u, status |-> "Pending"]),
   approvals |-> Append(ap, [expense_id |-> Len(ex) + 1,
                             step_id |-> FirstStep(steps, rid),
                             approver_id |-> NoUser,
                             status |-> "Pending",
                             comments |-> NoComment])]

\* the Expense committed before the rule lookup fails
SubmitAbortKeepsExpense(ex, ap, u) ==
  [expenses |-> Append(ex, [employee_id |-> u, status |-> "Pending"]),
   approvals |-> ap]

\* the tables after a request that returned before db.session.commit()
SubmitAbort(ex, ap, u) == [expenses |-> ex, approvals |-> ap]

submit_expense(u, hasFields) ==
  /\ UNCHANGED <<rules, steps, reqs>>
  /\ \E rid \in FirstRule(rules, Users[u].company_id) :
       IF submit_expense_code(u, hasFields, rid) = Created
         THEN /\ Len(expenses) < MaxExpenses
              /\ Len(approvals) < MaxApprovals
              /\ expenses' = SubmitCommit(expenses, approvals, u, rid).expenses
              /\ approvals' = SubmitCommit(expenses, approvals, u, rid).approvals
       ELSE IF submit_expense_code(u, hasFields, rid) = ServerError
         THEN /\ expenses' = SubmitAbort(expenses, approvals, u).expenses
              /\ approvals' = SubmitAbort(expenses, approvals, u).approvals
       ELSE UNCHANGED <<expenses, approvals>>

\* ----------------------------------- POST /approvals/<id>/approve
\* the gate also closed to the principals of another company than the
\* submitter's
approve_expense_codeSameCompany(u, aid) ==
  IF aid \notin DOMAIN approvals THEN NotFound
  ELSE IF RoleMismatch(u, approvals[aid], steps) THEN Forbidden
  ELSE IF Users[u].company_id #
            Users[expenses[approvals[aid].expense_id].employee_id].company_id
    THEN Forbidden
  ELSE OK

\* the status code of the response: get_or_404, then the role check
approve_expense_code(u, aid) ==
  IF aid \notin DOMAIN approvals THEN NotFound
  ELSE IF RoleMismatch(u, approvals[aid], steps) THEN Forbidden
  ELSE OK

\* the decision written without the approver
DecideNoApprover(ap, status, u, c) ==
  [ap EXCEPT !.status = status, !.comments = c]

\* step 4: the decision written on the approval row
Decide(ap, status, u, c) ==
  [ap EXCEPT !.status = status, !.approver_id = u, !.comments = c]

\* step 5: the new pending approval for the next step
NewApproval(eid, sid) ==
  [expense_id |-> eid, step_id |-> sid, approver_id |-> NoUser,
   status |-> "Pending", comments |-> NoComment]

\* the new pending approval attached to the expense of the latest approval
\* of the table instead of the expense of the approval decided
ApproveAdvanceLatestExpense(ap, aid, u, c, sid) ==
  Append([ap EXCEPT ![aid] = Decide(ap[aid], "Approved", u, c)],
         NewApproval(ap[Len(ap)].expense_id, sid))

\* the decision committed without the new pending approval
ApproveAdvanceLost(ap, aid, u, c, sid) ==
  [ap EXCEPT ![aid] = Decide(ap[aid], "Approved", u, c)]

\* steps 4-5 when a next step exists: the decision and the new pending
\* approval reach the table in the one db.session.commit()
ApproveAdvance(ap, aid, u, c, sid) ==
  Append([ap EXCEPT ![aid] = Decide(ap[aid], "Approved", u, c)],
         NewApproval(ap[aid].expense_id, sid))

\* the final approval committed without the expense status
ApproveFinalNoExpense(ap, ex, aid, u, c) ==
  [approvals |-> [ap EXCEPT ![aid] = Decide(ap[aid], "Approved", u, c)],
   expenses |-> ex]

\* steps 4-5 when there is no next step: the decision, and the whole expense
\* approved
ApproveFinal(ap, ex, aid, u, c) ==
  [approvals |-> [ap EXCEPT ![aid] = Decide(ap[aid], "Approved", u, c)],
   expenses |-> [ex EXCEPT ![ap[aid].expense_id].status = "Approved"]]

approve_expense(u, aid, c) ==
  /\ UNCHANGED <<rules, steps, reqs>>
  /\ IF approve_expense_code(u, aid) = OK
       THEN LET nxt == NextSteps(steps, approvals[aid].step_id)
            IN  IF nxt # {}
                  THEN /\ Len(approvals) < MaxApprovals
                       /\ \E sid \in nxt :
                            approvals' = ApproveAdvance(approvals, aid, u, c, sid)
                       /\ UNCHANGED expenses
                  ELSE /\ approvals' =
                            ApproveFinal(approvals, expenses, aid, u, c).approvals
                       /\ expenses' =
                            ApproveFinal(approvals, expenses, aid, u, c).expenses
       ELSE UNCHANGED <<expenses, approvals>>

\* ------------------------------------ POST /approvals/<id>/reject
\* the status code of the response: get_or_404, then the role check
reject_expense_code(u, aid) ==
  IF aid \notin DOMAIN approvals THEN NotFound
  ELSE IF RoleMismatch(u, approvals[aid], steps) THEN Forbidden
  ELSE OK

\* the decision committed without the expense status
RejectCommitNoExpense(ap, ex, aid, u, c) ==
  [approvals |-> [ap EXCEPT ![aid] = Decide(ap[aid], "Rejected", u, c)],
   expenses |-> ex]

\* step 2: the decision and the expense rejected, in the one commit
RejectCommit(ap, ex, aid, u, c) ==
  [approvals |-> [ap EXCEPT ![aid] = Decide(ap[aid], "Rejected", u, c)],
   expenses |-> [ex EXCEPT ![ap[aid].expense_id].status = "Rejected"]]

reject_expense(u, aid, c) ==
  /\ UNCHANGED <<rules, steps, reqs>>
  /\ IF reject_expense_code(u, aid) = OK
       THEN /\ approvals' = RejectCommit(approvals, expenses, aid, u, c).approvals
            /\ expenses' = RejectCommit(approvals, expenses, aid, u, c).expenses
       ELSE UNCHANGED <<expenses, approvals>>

\* ------------------------------------------------------- specification
CreateRule == \E u \in RuleAuthors, sl \in StepLists : create_approval_rule(u, sl)
Submit == \E u \in Submitters, f \in BOOLEAN : submit_expense(u, f)
Approve ==
  \E u \in Deciders, aid \in 1..MaxApprovals, c \in Comments :
    approve_expense(u, aid, c)
Reject ==
  \E u \in Deciders, aid \in 1..MaxApprovals, c \in Comments :
    reject_expense(u, aid, c)

Next == CreateRule \/ Submit \/ Approve \/ Reject

Spec == Init /\ [][Next]_vars

\* ----------------------------------------- two requests in flight at once
\* A decision request as the steps the handler takes on its own session:
\* load (get_or_404), the role check, the assignments and the next-step query,
\* and db.session.commit().  Nothing a session holds is visible to the other
\* one before its commit.
StatusOf(kind) == IF kind = "approve" THEN "Approved" ELSE "Rejected"

\* UPDATE of the unit of work: only the columns whose value differs from the
\* loaded one are written over the committed row
MergeRow(row, loaded, upd) ==
  [row EXCEPT
     !.status = IF upd.status # loaded.status THEN upd.status ELSE @,
     !.approver_id =
        IF upd.approver_id # loaded.approver_id THEN upd.approver_id ELSE @,
     !.comments = IF upd.comments # loaded.comments THEN upd.comments ELSE @]

\* steps 1-2: Users.query.get_or_404, ExpenseApproval.query.get_or_404
load(s, kind, u, aid) ==
  /\ reqs[s].pc = "idle"
  /\ UNCHANGED <<rules, steps, expenses, approvals>>
  /\ IF aid \notin DOMAIN approvals
       THEN reqs' = [reqs EXCEPT ![s] =
                       [IdleReq EXCEPT !.pc = "done", !.kind = kind,
                                       !.user = u, !.aid = aid,
                                       !.code = NotFound]]
       ELSE reqs' = [reqs EXCEPT ![s] =
                       [IdleReq EXCEPT !.pc = "check", !.kind = kind,
                                       !.user = u, !.aid = aid,
                                       !.loaded = approvals[aid]]]

\* step 3: the role check on the loaded approval
check(s) ==
  /\ reqs[s].pc = "check"
  /\ UNCHANGED <<rules, steps, expenses, approvals>>
  /\ IF RoleMismatch(reqs[s].user, reqs[s].loaded, steps)
       THEN reqs' = [reqs EXCEPT ![s].pc = "done", ![s].code = Forbidden]
       ELSE reqs' = [reqs EXCEPT ![s].pc = "write"]

\* steps 4-5: the assignments on the loaded row, the next-step query, and
\* either the new approval added to the session or the expense loaded and set
write(s, c) ==
  /\ reqs[s].pc = "write"
  /\ UNCHANGED <<rules, steps, expenses, approvals>>
  /\ LET r == reqs[s]
         upd == Decide(r.loaded, StatusOf(r.kind), r.user, c)
         nxt == NextSteps(steps, r.loaded.step_id)
     IN  IF r.kind = "approve" /\ nxt # {}
           THEN \E sid \in nxt :
                  reqs' = [reqs EXCEPT ![s].pc = "commit", ![s].update = upd,
                                       ![s].insert = sid]
           ELSE reqs' = [reqs EXCEPT
                           ![s].pc = "commit", ![s].update = upd,
                           ![s].seen = expenses[r.loaded.expense_id].status]

\* db.session.commit(): the session's changes reach the tables together
commit(s) ==
  /\ reqs[s].pc = "commit"
  /\ UNCHANGED <<rules, steps>>
  /\ LET r == reqs[s]
         merged == [approvals EXCEPT
                      ![r.aid] = MergeRow(@, r.loaded, r.update)]
     IN  /\ IF r.insert # 0
              THEN /\ Len(approvals) < MaxApprovals
                   /\ approvals' =
                        Append(merged, NewApproval(r.loaded.expense_id, r.insert))
                   /\ UNCHANGED expenses
              ELSE /\ approvals' = merged
                   /\ expenses' =
                        IF r.seen # StatusOf(r.kind)
                          THEN [expenses EXCEPT
                                  ![r.loaded.expense_id].status = StatusOf(r.kind)]
                          ELSE expenses
         /\ reqs' = [reqs EXCEPT ![s].pc = "done", ![s].code = OK]

\* the definitions the concurrent runs start from
ConcStepLists == {sl \in StepLists : sl # << >> /\ UniqueStepNumbers(sl)}

\* the tables after one rule was created by the Admin and one expense was
\* submitted by user 2
InitConc ==
  /\ rules = << [company_id |-> 1] >>
  /\ \E sl \in ConcStepLists : steps = NewSteps(1, sl)
  /\ expenses = << [employee_id |-> 2, status |-> "Pending"] >>
  /\ approvals = << NewApproval(1, FirstStep(steps, 1)) >>
  /\ reqs = [s \in Slots |-> IdleReq]

Load ==
  \E s \in Slots, kind \in {"approve", "reject"}, u \in Deciders,
     aid \in 1..MaxApprovals : load(s, kind, u, aid)
Check == \E s \in Slots : check(s)
Write == \E s \in Slots, c \in Comments : write(s, c)
Commit == \E s \in Slots : commit(s)

NextConc == Load \/ Check \/ Write \/ Commit

SpecConc == InitConc /\ [][NextConc]_vars

\* ============================================================ properties
\* the approvals of expense e
ApprovalsOf(e) == {a \in DOMAIN approvals : approvals[a].expense_id = e}

\* the approvals of expense e that are Pending
PendingOf(e) == {a \in ApprovalsOf(e) : approvals[a].status = "Pending"}

\* the step is the last one of its definition: no step of the rule has a
\* higher step_number
IsLastStep(sid) ==
  \A j \in RuleSteps(steps, steps[sid].rule_id) :
    steps[j].step_number <= steps[sid].step_number

\* the step is the first one of its definition
IsFirstStep(sid) == sid = FirstStep(steps, steps[sid].rule_id)

\* the principal holds the role the approval's step requires
Authorized(u, aid) == Users[u].role = steps[approvals[aid].step_id].approver_role

\* the rule of step sid has no step numbered n
NoStepNumbered(sid, n) ==
  \A j \in RuleSteps(steps, steps[sid].rule_id) : steps[j].step_number # n

\* the step lies above a gap: a lower step of its rule is not followed by
\* the step numbered one more
AboveGap(sid) ==
  \E j \in RuleSteps(steps, steps[sid].rule_id) :
    /\ steps[j].step_number < steps[sid].step_number
    /\ NoStepNumbered(sid, steps[j].step_number + 1)

\* GET /approvals/pending: the Pending approvals whose step requires the role
\* of the caller
get_pending_approvals(u) ==
  {a \in DOMAIN approvals :
     /\ steps[approvals[a].step_id].approver_role = Users[u].role
     /\ approvals[a].status = "Pending"}

\* C1: an Expense whose status is Pending never has more than one Pending
\* ExpenseApproval, whatever sequence of submit, approve and reject requests
\* (repeated ones included) led to the state.
C1_AtMostOnePending ==
  \A e \in DOMAIN expenses :
    expenses[e].status = "Pending" => Cardinality(PendingOf(e)) <= 1

\* C2: in every committed state an Expense whose status is Pending has at
\* least one Pending ExpenseApproval.
C2_AtLeastOnePending ==
  \A e \in DOMAIN expenses :
    expenses[e].status = "Pending" => PendingOf(e) # {}

\* an approve was committed and the expense is still Pending, with the
\* successor as its active step
C2_Witness ==
  \E e \in DOMAIN expenses :
    /\ expenses[e].status = "Pending"
    /\ \E a \in PendingOf(e) : ~IsFirstStep(approvals[a].step_id)
    /\ \E a \in ApprovalsOf(e) : approvals[a].status = "Approved"

\* C3: approve or reject on an approval that is already Approved or Rejected
\* fails (its status code is not 200) and changes neither the approvals nor
\* the expenses.
C3_DecideTerminalFails ==
  [][\A u \in Deciders, aid \in DOMAIN approvals, c \in Comments :
       /\ ( approvals[aid].status # "Pending" /\ approve_expense(u, aid, c) )
            => /\ approve_expense_code(u, aid) # OK
               /\ UNCHANGED <<approvals, expenses>>
       /\ ( approvals[aid].status # "Pending" /\ reject_expense(u, aid, c) )
            => /\ reject_expense_code(u, aid) # OK
               /\ UNCHANGED <<approvals, expenses>>]_vars

\* C4: an authorized approve of a Pending approval at the last step of its
\* definition succeeds, sets the Expense to Approved and creates no new
\* approval.
C4_ApproveLastStep ==
  [][\A u \in Deciders, aid \in DOMAIN approvals, c \in Comments :
       ( /\ approvals[aid].status = "Pending"
         /\ Authorized(u, aid)
         /\ IsLastStep(approvals[aid].step_id)
         /\ approve_expense(u, aid, c) )
       => /\ approve_expense_code(u, aid) = OK
          /\ approvals'[aid].status = "Approved"
          /\ expenses'[approvals[aid].expense_id].status = "Approved"
          /\ Len(approvals') = Len(approvals)]_vars

\* an expense went through every step of its definition: its last
\* approval, at the last step, is Approved and so is the expense
C4_Witness ==
  \E a \in DOMAIN approvals :
    /\ approvals[a].status = "Approved"
    /\ IsLastStep(approvals[a].step_id)
    /\ expenses[approvals[a].expense_id].status = "Approved"
    /\ \A b \in ApprovalsOf(approvals[a].expense_id) :
         approvals[b].status = "Approved"
    /\ Cardinality(ApprovalsOf(approvals[a].expense_id)) =
         Cardinality(RuleSteps(steps, steps[approvals[a].step_id].rule_id))

\* C5: an authorized approve of a Pending approval at a step that is not the
\* last of its definition creates exactly one new approval, Pending, for the
\* same expense at step_number + 1, and the Expense stays Pending.
C5_ApproveNonLastStep ==
  [][\A u \in Deciders, aid \in DOMAIN approvals, c \in Comments :
       ( /\ approvals[aid].status = "Pending"
         /\ Authorized(u, aid)
         /\ ~IsLastStep(approvals[aid].step_id)
         /\ approve_expense(u, aid, c) )
       => /\ Len(approvals') = Len(approvals) + 1
          /\ approvals'[Len(approvals')].status = "Pending"
          /\ approvals'[Len(approvals')].expense_id = approvals[aid].expense_id
          /\ steps[approvals'[Len(approvals')].step_id].step_number =
               steps[approvals[aid].step_id].step_number + 1
          /\ expenses'[approvals[aid].expense_id].status = "Pending"]_vars

\* C6: an authorized reject of a Pending approval at any step succeeds, makes
\* the approval Rejected and the Expense Rejected and creates no new approval.
C6_RejectAnyStep ==
  [][\A u \in Deciders, aid \in DOMAIN approvals, c \in Comments :
       ( /\ approvals[aid].status = "Pending"
         /\ Authorized(u, aid)
         /\ reject_expense(u, aid, c) )
       => /\ reject_expense_code(u, aid) = OK
          /\ approvals'[aid].status = "Rejected"
          /\ expenses'[approvals[aid].expense_id].status = "Rejected"
          /\ Len(approvals') = Len(approvals)]_vars

\* an expense was approved at its first step and rejected at a middle step
\* (neither the first nor the last of its definition), and no approval
\* followed
C6_Witness ==
  \E a \in DOMAIN approvals :
    /\ approvals[a].status = "Rejected"
    /\ ~IsLastStep(approvals[a].step_id)
    /\ ~IsFirstStep(approvals[a].step_id)
    /\ expenses[approvals[a].expense_id].status = "Rejected"
    /\ Cardinality(ApprovalsOf(approvals[a].expense_id)) = 2
    /\ \A b \in ApprovalsOf(approvals[a].expense_id) :
         b # a => approvals[b].status = "Approved"

\* C7: approve and reject by a principal whose role differs from the role of
\* the approval's step answer 403 and leave approvals and expenses unchanged.
C7_RoleMismatchRefused ==
  /\ [](\A u \in Deciders, aid \in DOMAIN approvals :
          ~Authorized(u, aid)
          => /\ approve_expense_code(u, aid) = Forbidden
             /\ reject_expense_code(u, aid) = Forbidden)
  /\ [][\A u \in Deciders, aid \in DOMAIN approvals, c \in Comments :
          ( /\ ~Authorized(u, aid)
            /\ (approve_expense(u, aid, c) \/ reject_expense(u, aid, c)) )
          => UNCHANGED <<approvals, expenses>>]_vars

\* a Pending approval waits for Finance after the Manager approved the step
\* before it: the Managers are refused on it, Finance on the other one
C7_Witness ==
  \E a, b \in DOMAIN approvals :
    /\ approvals[a].status = "Pending"
    /\ approvals[b].status = "Approved"
    /\ approvals[a].expense_id = approvals[b].expense_id
    /\ \E u, v \in Deciders :
         /\ ~Authorized(u, a) /\ Authorized(u, b)
         /\ Authorized(v, a) /\ ~Authorized(v, b)

\* C8: of two approve requests that both loaded the same approval while it
\* was Pending and both passed the role check, exactly one succeeds, and the
\* pair creates at most one successor approval.
C8_OneOfTwoSucceeds ==
  \A s, t \in Slots :
    ( /\ s # t
      /\ reqs[s].pc = "done" /\ reqs[t].pc = "done"
      /\ reqs[s].kind = "approve" /\ reqs[t].kind = "approve"
      /\ reqs[s].aid = reqs[t].aid
      /\ reqs[s].loaded.status = "Pending" /\ reqs[t].loaded.status = "Pending"
      /\ reqs[s].code # Forbidden /\ reqs[t].code # Forbidden )
    => /\ (reqs[s].code = OK) # (reqs[t].code = OK)
       /\ Cardinality({a \in DOMAIN approvals :
             /\ approvals[a].expense_id = reqs[s].loaded.expense_id
             /\ approvals[a].step_id \in NextSteps(steps, reqs[s].loaded.step_id)})
            <= 1

\* C9: an Expense that has left Pending never changes status again.
C9_ExpenseStatusTerminal ==
  [][\A e \in DOMAIN expenses :
       expenses[e].status # "Pending"
       => expenses'[e].status = expenses[e].status]_vars

\* C10: a submission for a company without an approval rule (or whose rule
\* has no steps) answers 500 and persists neither an Expense nor an
\* ExpenseApproval.
C10_SubmitWithoutWorkflow ==
  /\ [](\A u \in Submitters :
          \A rid \in FirstRule(rules, Users[u].company_id) :
            (rid = 0 \/ RuleSteps(steps, rid) = {})
            => submit_expense_code(u, TRUE, rid) = ServerError)
  /\ [][\A u \in Submitters :
          ( /\ \A r \in CompanyRules(rules, Users[u].company_id) :
                 RuleSteps(steps, r) = {}
            /\ submit_expense(u, TRUE) )
          => UNCHANGED <<approvals, expenses>>]_vars

\* a submitter's company has no approval rule while another company has one
\* and an expense in flight
C10_Witness ==
  /\ \E u \in Submitters : CompanyRules(rules, Users[u].company_id) = {}
  /\ rules # << >>
  /\ expenses # << >>

\* C11: a successful submission creates, together with the Expense, exactly
\* one ExpenseApproval for it, Pending and without approver, whose step is
\* the step numbered 1 of a rule of the submitter's company.
C11_SubmitCreatesStepOne ==
  [][\A u \in Submitters :
       ( /\ \E rid \in FirstRule(rules, Users[u].company_id) :
              submit_expense_code(u, TRUE, rid) = Created
         /\ submit_expense(u, TRUE) )
       => /\ Len(expenses') = Len(expenses) + 1
          /\ Len(approvals') = Len(approvals) + 1
          /\ approvals'[Len(approvals')].expense_id = Len(expenses')
          /\ approvals'[Len(approvals')].status = "Pending"
          /\ approvals'[Len(approvals')].approver_id = NoUser
          /\ steps[approvals'[Len(approvals')].step_id].rule_id
               \in CompanyRules(rules, Users[u].company_id)
          /\ steps[approvals'[Len(approvals')].step_id].step_number = 1]_vars

\* C12: POST /approval-rules by the Admin with an empty steps list, or with
\* two steps of the same step_number, is refused as a validation error (400)
\* and stores neither the rule nor any step; step numbers are unique within
\* every stored rule.
C12_CreateRejectsBadSteps ==
  /\ [](\A u \in RuleAuthors, sl \in StepLists :
          (Users[u].role = "Admin" /\ (sl = << >> \/ ~UniqueStepNumbers(sl)))
          => create_approval_rule_code(u, sl) = BadRequest)
  /\ [][\A u \in RuleAuthors, sl \in StepLists :
          ( /\ sl = << >> \/ ~UniqueStepNumbers(sl)
            /\ create_approval_rule(u, sl) )
          => UNCHANGED <<rules, steps>>]_vars
  /\ [](\A i, j \in DOMAIN steps :
          ( /\ steps[i].rule_id = steps[j].rule_id
            /\ steps[i].step_number = steps[j].step_number ) => i = j)

\* C13: while an Expense is Rejected none of its approvals is Pending, no
\* principal finds an approval of it in GET /approvals/pending, and no
\* request adds an approval for it.
C13_RejectionHaltsChain ==
  /\ [](\A e \in DOMAIN expenses :
          expenses[e].status = "Rejected"
          => /\ PendingOf(e) = {}
             /\ \A u \in Deciders : \A a \in get_pending_approvals(u) :
                  approvals[a].expense_id # e)
  /\ [][\A e \in DOMAIN expenses :
          expenses[e].status = "Rejected"
          => {a \in DOMAIN approvals' : approvals'[a].expense_id = e}
               = ApprovalsOf(e)]_vars

\* C14: no two ExpenseApprovals have the same expense and the same step, and
\* an approve whose successor approval already exists fails (its status code
\* is not 200) without inserting anything.
C14_OneApprovalPerStep ==
  /\ [](\A a, b \in DOMAIN approvals :
          ( /\ approvals[a].expense_id = approvals[b].expense_id
            /\ approvals[a].step_id = approvals[b].step_id ) => a = b)
  /\ [][\A u \in Deciders, aid \in DOMAIN approvals, c \in Comments :
          ( /\ \E b \in ApprovalsOf(approvals[aid].expense_id) :
                 approvals[b].step_id \in NextSteps(steps, approvals[aid].step_id)
            /\ approve_expense(u, aid, c) )
          => /\ approve_expense_code(u, aid) # OK
             /\ UNCHANGED approvals]_vars

\* C15: a principal whose role equals the approver_role of the approval's
\* step passes the gate of approve and of reject (status code 200) whoever
\* the principal is and whatever the principal's company, and the decision is
\* recorded under that principal.
C15_GateRoleOnly ==
  /\ [](\A u \in Deciders, aid \in DOMAIN approvals :
          Users[u].role = steps[approvals[aid].step_id].approver_role
          => /\ approve_expense_code(u, aid) = OK
             /\ reject_expense_code(u, aid) = OK)
  /\ [][approvals' # approvals
          => \A u \in Deciders, aid \in DOMAIN approvals, c \in Comments :
               Users[u].role = steps[approvals[aid].step_id].approver_role
               => /\ approve_expense(u, aid, c)
                       => approvals'[aid] =
                            Decide(approvals[aid], "Approved", u, c)
                  /\ reject_expense(u, aid, c)
                       => approvals'[aid] =
                            Decide(approvals[aid], "Rejected", u, c)]_vars

\* an approval was decided by a principal of another company than the
\* submitter's, and another one by a principal of the submitter's company
C15_Witness ==
  \E a, b \in DOMAIN approvals :
    /\ approvals[a].approver_id # NoUser
    /\ approvals[b].approver_id # NoUser
    /\ Users[approvals[a].approver_id].company_id #
         Users[expenses[approvals[a].expense_id].employee_id].company_id
    /\ Users[approvals[b].approver_id].company_id =
         Users[expenses[approvals[b].expense_id].employee_id].company_id

\* C16: all ExpenseApprovals of one expense reference steps of one and the
\* same rule, and a request that adds a rule changes neither the approvals
\* nor the steps of the rules that exist.
C16_OneDefinitionPerExpense ==
  /\ [](\A a, b \in DOMAIN approvals :
          approvals[a].expense_id = approvals[b].expense_id
          => steps[approvals[a].step_id].rule_id =
               steps[approvals[b].step_id].rule_id)
  /\ [][rules' # rules
          => /\ approvals' = approvals
             /\ \A i \in DOMAIN steps : steps'[i] = steps[i]
             /\ \A r \in DOMAIN rules :
                  RuleSteps(steps', r) = RuleSteps(steps, r)]_vars

\* the company has two rules, the second one with a step numbered like the
\* successor of the first step of the first one, and an expense has moved
\* from its first step to the next
C16_Witness ==
  /\ Len(rules) = 2
  /\ rules[1].company_id = rules[2].company_id
  /\ \E a, b \in DOMAIN approvals :
       /\ approvals[a].expense_id = approvals[b].expense_id
       /\ approvals[a].status = "Approved"
       /\ approvals[b].step_id \in NextSteps(steps, approvals[a].step_id)
       /\ \E i \in RuleSteps(steps, 2) :
            /\ steps[approvals[b].step_id].rule_id = 1
            /\ steps[i].step_number = steps[approvals[b].step_id].step_number

\* C17: an authorized approve of an approval at a step k that is not the
\* last of its rule, while the rule has no step numbered k + 1, sets the
\* Expense to Approved and creates no approval; no approval ever references a
\* step above such a gap.
C17_GapEndsChain ==
  /\ [][<<approvals, expenses>>' # <<approvals, expenses>>
          => \A u \in Deciders, aid \in DOMAIN approvals, c \in Comments :
               ( /\ Authorized(u, aid)
                 /\ ~IsLastStep(approvals[aid].step_id)
                 /\ NoStepNumbered(approvals[aid].step_id,
                       steps[approvals[aid].step_id].step_number + 1)
                 /\ approve_expense(u, aid, c) )
               => /\ expenses'[approvals[aid].expense_id].status = "Approved"
                  /\ Len(approvals') = Len(approvals)]_vars
  /\ [](\A a \in DOMAIN approvals : ~AboveGap(approvals[a].step_id))

\* an expense is Approved after the approve of its approval at a step that is
\* followed by a gap, and a higher step of the rule has no approval
C17_Witness ==
  \E a \in DOMAIN approvals :
    /\ approvals[a].status = "Approved"
    /\ expenses[approvals[a].expense_id].status = "Approved"
    /\ NoStepNumbered(approvals[a].step_id,
          steps[approvals[a].step_id].step_number + 1)
    /\ \E j \in RuleSteps(steps, steps[approvals[a].step_id].rule_id) :
         /\ steps[j].step_number > steps[approvals[a].step_id].step_number
         /\ \A b \in ApprovalsOf(approvals[a].expense_id) :
              approvals[b].step_id # j

\* C18: an approve or a reject on an approval of expense e changes no other
\* Expense and no ExpenseApproval of another expense, and every approval it
\* adds belongs to e.
C18_DecisionFrame ==
  [][<<approvals, expenses>>' # <<approvals, expenses>>
       => \A u \in Deciders, aid \in DOMAIN approvals, c \in Comments :
            (approve_expense(u, aid, c) \/ reject_expense(u, aid, c))
            => /\ DOMAIN expenses' = DOMAIN expenses
               /\ \A f \in DOMAIN expenses :
                    f # approvals[aid].expense_id => expenses'[f] = expenses[f]
               /\ \A b \in DOMAIN approvals :
                    approvals[b].expense_id # approvals[aid].expense_id
                    => approvals'[b] = approvals[b]
               /\ \A b \in DOMAIN approvals' \ DOMAIN approvals :
                    approvals'[b].expense_id = approvals[aid].expense_id]_vars

\* one expense moved to its second step and was then decided there, while
\* another expense, submitted before that decision, is as its submission
\* left it
C18_Witness ==
  \E e, f \in DOMAIN expenses :
    /\ e # f
    /\ expenses[e].status # "Pending"
    /\ \E a, b \in ApprovalsOf(e) :
         /\ a < b
         /\ approvals[a].status = "Approved"
         /\ approvals[b].approver_id # NoUser
         /\ \E x \in ApprovalsOf(f) : x < b
    /\ expenses[f].status = "Pending"
    /\ Cardinality(ApprovalsOf(f)) = 1
    /\ \A x \in ApprovalsOf(f) :
         approvals[x] = NewApproval(f, approvals[x].step_id)

\* C19: the number of ExpenseApprovals ever created for an expense is at most
\* the number of steps of its rule (approvals are never deleted, so the rows
\* of the table are the approvals ever created).
C19_AtMostOnePerStepCreated ==
  \A a \in DOMAIN approvals :
    Cardinality(ApprovalsOf(approvals[a].expense_id))
      <= Cardinality(RuleSteps(steps, steps[approvals[a].step_id].rule_id))

\* C20: whenever an Expense is Approved, every step of its rule has an
\* Approved ExpenseApproval of that expense, and every approval of the
\* expense is Approved.
C20_ApprovedMeansAllSteps ==
  \A a \in DOMAIN approvals :
    expenses[approvals[a].expense_id].status = "Approved"
    => /\ approvals[a].status = "Approved"
       /\ \A j \in RuleSteps(steps, steps[approvals[a].step_id].rule_id) :
            \E b \in ApprovalsOf(approvals[a].expense_id) :
              approvals[b].step_id = j /\ approvals[b].status = "Approved"

\* C21: an Expense is Rejected if and only if at least one of its
\* ExpenseApprovals is Rejected.
C21_RejectedIffSomeRejected ==
  \A e \in DOMAIN expenses :
    expenses[e].status = "Rejected"
    <=> \E a \in ApprovalsOf(e) : approvals[a].status = "Rejected"

\* C22: an ExpenseApproval has no approver if and only if it is Pending; a
\* request adds approvals only as Pending ones without approver, and an
\* authorized approve or reject leaves the approval with a terminal status
\* and the acting principal as its approver.
C22_NoApproverIffPending ==
  /\ [](\A a \in DOMAIN approvals :
          approvals[a].approver_id = NoUser <=> approvals[a].status = "Pending")
  /\ [][approvals' # approvals
          => /\ \A b \in DOMAIN approvals' \ DOMAIN approvals :
                  /\ approvals'[b].status = "Pending"
                  /\ approvals'[b].approver_id = NoUser
             /\ \A u \in Deciders, aid \in DOMAIN approvals, c \in Comments :
                  /\ (Authorized(u, aid) /\ approve_expense(u, aid, c))
                       => /\ approvals'[aid].status = "Approved"
                          /\ approvals'[aid].approver_id = u
                  /\ (Authorized(u, aid) /\ reject_expense(u, aid, c))
                       => /\ approvals'[aid].status = "Rejected"
                          /\ approvals'[aid].approver_id = u]_vars

\* one expense has an Approved approval with its approver and a Pending one
\* without, and another expense a Rejected approval with its approver
C22_Witness ==
  \E a, b, r \in DOMAIN approvals :
    /\ approvals[a].status = "Approved" /\ approvals[a].approver_id # NoUser
    /\ approvals[b].status = "Pending" /\ approvals[b].approver_id = NoUser
    /\ approvals[b].expense_id = approvals[a].expense_id
    /\ approvals[r].status = "Rejected" /\ approvals[r].approver_id # NoUser
    /\ approvals[r].expense_id # approvals[a].expense_id
====
